---------------------------- MODULE Spec2Model ----------------------------
(***************************************************************************)
(* A model of the More-Thuente line search of argmin                       *)
(* (src/src/solver/linesearch/morethuente.rs): the configuration setters,  *)
(* the setters of the initial parameter, cost, gradient and search         *)
(* direction, init, next_iter and the step updater cstep.  Every method    *)
(* can be called in every state of the solver, as in the code.             *)
(*                                                                         *)
(* Numbers.  The code computes in f64 (IEEE 754 binary64), and so does the *)
(* model: an f64 is the tuple <<s, e, l3, l2, l1, l0>>, the number         *)
(*     s * (l3 * 2^42 + l2 * 2^28 + l1 * 2^14 + l0) * 2^e                  *)
(* with the sign s = 1 or -1, the 53 bit significand in four limbs of 14   *)
(* bits and -1074 <= e <= 971.  A normal number has l3 in 1024..2047, a    *)
(* subnormal number and the two zeros have e = -1074 and l3 < 1024.        *)
(* <<1, 999, 0, 0, 0, 0>> is +infinity, <<-1, 999, 0, 0, 0, 0>> is         *)
(* -infinity and <<0, 999, 0, 0, 0, 0>> is NaN.  For instance 1.0 is       *)
(* <<1, -52, 1024, 0, 0, 0>> and 0.5 is <<1, -53, 1024, 0, 0, 0>>.         *)
(* Add, Sub, Mul, Div and Sqrt compute the exact result on limbs and round *)
(* it once to the nearest f64, ties to even, with overflow to an infinity  *)
(* and gradual underflow.  Comparisons with NaN are false, the two zeros   *)
(* are equal, min and max skip a NaN operand, x/0 is an infinity and 0/0   *)
(* is NaN.                                                                 *)
(***************************************************************************)
EXTENDS Integers, Sequences, FiniteSets, TLC

VARIABLES
    ftol, gtol, stpmin, stpmax, alpha,      \* configuration
    operator,                               \* the operator given to new()
    init_param_b, finit_b, init_grad_b,     \* builder fields
    search_direction_b,
    cur_param,                              \* the current parameter of the base
    init_param, finit, init_grad,           \* set by init
    search_direction, dginit, dgtest,
    width, width1, stp, stx, sty, f,        \* bracket state
    brackt, stage1, infoc,
    pc,                                     \* how the last of init and next_iter ended
    info, iters, runs, extra,
    steady,                                 \* no configuration change since init
    last, ev, cin, cs                       \* the last operation, for the properties

cfgvars == <<ftol, gtol, stpmin, stpmax, alpha>>
bldvars == <<init_param_b, finit_b, init_grad_b, search_direction_b, cur_param>>
runvars == <<init_param, finit, init_grad, search_direction, dginit, dgtest, width,
             width1, stp, stx, sty, f, brackt, stage1, infoc>>
vars == <<ftol, gtol, stpmin, stpmax, alpha, operator, init_param_b, finit_b,
          init_grad_b, search_direction_b, cur_param, init_param, finit, init_grad,
          search_direction, dginit, dgtest, width, width1, stp, stx, sty, f, brackt,
          stage1, infoc, pc, info, iters, runs, extra, steady, last, ev, cin, cs>>

----------------------------------------------------------------------------
(* f64 arithmetic *)

\* Bits of the significand of an f64, bits of a limb and the base of a limb.
MantBits == 53
LimbBits == 14
Base == 2 ^ LimbBits
\* The exponents of the least significand bit of a finite f64.
EMin == -1074
EMax == 971

NaN == <<0, 999, 0, 0, 0, 0>>
PInf == <<1, 999, 0, 0, 0, 0>>
NInf == <<-1, 999, 0, 0, 0, 0>>
Zero == <<1, EMin, 0, 0, 0, 0>>

IAbs(i) == IF i < 0 THEN -i ELSE i
ISgn(i) == IF i < 0 THEN -1 ELSE IF i = 0 THEN 0 ELSE 1
IMin(i, j) == IF i < j THEN i ELSE j
IMax(i, j) == IF i < j THEN j ELSE i

\* The number of binary digits of a limb n, 0 <= n < 2^14.
BitLen(n) ==
    IF n < 128
    THEN IF n < 8 THEN (IF n < 2 THEN n ELSE IF n < 4 THEN 2 ELSE 3)
         ELSE IF n < 32 THEN (IF n < 16 THEN 4 ELSE 5)
         ELSE IF n < 64 THEN 6 ELSE 7
    ELSE IF n < 2048
         THEN IF n < 512 THEN (IF n < 256 THEN 8 ELSE 9)
              ELSE IF n < 1024 THEN 10 ELSE 11
         ELSE IF n < 8192 THEN (IF n < 4096 THEN 12 ELSE 13) ELSE 14

----------------------------------------------------------------------------
(* Natural numbers of any size: sequences of limbs, the least first. *)

At(W, j) == IF j >= 1 /\ j <= Len(W) THEN W[j] ELSE 0

\* The index of the highest limb of W that is not zero, from t down.
RECURSIVE TopLimb(_, _)
TopLimb(W, t) == IF t = 0 THEN 0 ELSE IF W[t] # 0 THEN t ELSE TopLimb(W, t - 1)

BitLenAt(W, t) == IF t = 0 THEN 0 ELSE LimbBits * (t - 1) + BitLen(W[t])
BitLenW(W) == BitLenAt(W, TopLimb(W, Len(W)))

\* The n low limbs of W / 2^k and of W * 2^k, n in {2, 4, 5, 8}, with
\* k = LimbBits * a + b and p = 2^b.
ShrLimb(W, a, p, i) ==
    (At(W, i + a) \div p) + (At(W, i + a + 1) % p) * (Base \div p)
ShrAt(W, a, p, n) ==
    IF n = 2 THEN <<ShrLimb(W, a, p, 1), ShrLimb(W, a, p, 2)>>
    ELSE IF n = 4
    THEN <<ShrLimb(W, a, p, 1), ShrLimb(W, a, p, 2), ShrLimb(W, a, p, 3),
           ShrLimb(W, a, p, 4)>>
    ELSE <<ShrLimb(W, a, p, 1), ShrLimb(W, a, p, 2), ShrLimb(W, a, p, 3),
           ShrLimb(W, a, p, 4), ShrLimb(W, a, p, 5)>>
ShrW(W, k, n) == ShrAt(W, k \div LimbBits, 2 ^ (k % LimbBits), n)
ShlLimb(W, a, p, i) ==
    ((At(W, i - a) * p) % Base) + ((At(W, i - a - 1) * p) \div Base)
ShlAt(W, a, p, n) ==
    IF n = 4
    THEN <<ShlLimb(W, a, p, 1), ShlLimb(W, a, p, 2), ShlLimb(W, a, p, 3),
           ShlLimb(W, a, p, 4)>>
    ELSE IF n = 5
    THEN <<ShlLimb(W, a, p, 1), ShlLimb(W, a, p, 2), ShlLimb(W, a, p, 3),
           ShlLimb(W, a, p, 4), ShlLimb(W, a, p, 5)>>
    ELSE <<ShlLimb(W, a, p, 1), ShlLimb(W, a, p, 2), ShlLimb(W, a, p, 3),
           ShlLimb(W, a, p, 4), ShlLimb(W, a, p, 5), ShlLimb(W, a, p, 6),
           ShlLimb(W, a, p, 7), ShlLimb(W, a, p, 8)>>
ShlW(W, k, n) == ShlAt(W, k \div LimbBits, 2 ^ (k % LimbBits), n)

\* Bit j of W, and whether a bit below bit j is set.
BitW(W, j) == (At(W, (j \div LimbBits) + 1) \div (2 ^ (j % LimbBits))) % 2
LowNonzero(W, j) ==
    \/ \E i \in 1..(j \div LimbBits) : At(W, i) # 0
    \/ At(W, (j \div LimbBits) + 1) % (2 ^ (j % LimbBits)) # 0

\* W with its last bit set: W stands for a number of which bits below the
\* last one were dropped, one of them set. Two bits or more of W are rounded
\* away afterwards.
Sticky(W) == IF W[1] % 2 = 0 THEN [W EXCEPT ![1] = @ + 1] ELSE W

\* A against B on their n low limbs: -1, 0 or 1.
RECURSIVE CmpW(_, _, _)
CmpW(A, B, n) ==
    IF n = 0 THEN 0
    ELSE IF A[n] < B[n] THEN -1
    ELSE IF A[n] > B[n] THEN 1
    ELSE CmpW(A, B, n - 1)

\* The n low limbs of A + B and, for A >= B, of A - B, from limb i up: t is
\* limb i with the carry.
RECURSIVE AddCarry(_, _, _, _, _)
AddCarry(A, B, i, n, t) ==
    IF i = n THEN <<t % Base>>
    ELSE <<t % Base>> \o AddCarry(A, B, i + 1, n, A[i + 1] + B[i + 1] + (t \div Base))
AddW(A, B, n) == AddCarry(A, B, 1, n, A[1] + B[1])
RECURSIVE SubBorrow(_, _, _, _, _)
SubBorrow(A, B, i, n, t) ==
    IF i = n THEN <<t % Base>>
    ELSE <<t % Base>> \o SubBorrow(A, B, i + 1, n,
                                   A[i + 1] - B[i + 1] - (IF t < 0 THEN 1 ELSE 0))
SubW(A, B, n) == SubBorrow(A, B, 1, n, A[1] - B[1])

\* A + 1 for A of four limbs, the highest below Base - 1.
Inc(A) ==
    IF A[1] # Base - 1 THEN <<A[1] + 1, A[2], A[3], A[4]>>
    ELSE IF A[2] # Base - 1 THEN <<0, A[2] + 1, A[3], A[4]>>
    ELSE IF A[3] # Base - 1 THEN <<0, 0, A[3] + 1, A[4]>>
    ELSE <<0, 0, 0, A[4] + 1>>

\* Column k of the product of A and B of four limbs each.
Col(A, B, k) ==
    IF k < 4
    THEN IF k = 1 THEN A[1] * B[1]
         ELSE IF k = 2 THEN A[1] * B[2] + A[2] * B[1]
         ELSE A[1] * B[3] + A[2] * B[2] + A[3] * B[1]
    ELSE IF k = 4 THEN A[1] * B[4] + A[2] * B[3] + A[3] * B[2] + A[4] * B[1]
    ELSE IF k = 5 THEN A[2] * B[4] + A[3] * B[3] + A[4] * B[2]
    ELSE IF k = 6 THEN A[3] * B[4] + A[4] * B[3]
    ELSE IF k = 7 THEN A[4] * B[4]
    ELSE 0
\* The eight limbs of A * B from limb k up: t is column k with the carry.
RECURSIVE MulCarry(_, _, _, _)
MulCarry(A, B, k, t) ==
    IF k = 8 THEN <<t % Base>>
    ELSE <<t % Base>> \o MulCarry(A, B, k + 1, Col(A, B, k + 1) + (t \div Base))
MulW(A, B) == MulCarry(A, B, 1, A[1] * B[1])

\* The five limbs of A * d for A of four limbs and a limb d.
RECURSIVE MulLimbCarry(_, _, _, _)
MulLimbCarry(A, d, i, t) ==
    IF i = 4 THEN <<t % Base, t \div Base>>
    ELSE <<t % Base>> \o MulLimbCarry(A, d, i + 1, A[i + 1] * d + (t \div Base))
MulLimb(A, d) == MulLimbCarry(A, d, 1, A[1] * d)

\* Num / Den for Num of eight limbs and Den of four limbs (and a fifth, 0),
\* Den above the limbs of Num over limb j: <<quotient, remainder>>, limb by
\* limb from limb j of Num down. The quotient limb is estimated from the
\* high limbs of the remainder and of Den, never too low, and corrected.
RECURSIVE DivLoop(_, _, _, _, _)
RECURSIVE DivFix(_, _, _, _, _, _, _)
RECURSIVE DivTrim(_, _, _, _, _)
DivTrim(qh, rh, d4, d3, r2) ==
    IF rh < Base /\ (qh >= Base \/ qh * d3 > rh * Base + r2)
    THEN DivTrim(qh - 1, rh + d4, d4, d3, r2)
    ELSE IMin(Base - 1, qh)
DivFix(Num, Den, j, Rem, Quo, qh, T) ==
    IF CmpW(T, Rem, 5) > 0
    THEN DivFix(Num, Den, j, Rem, Quo, qh - 1, SubW(T, Den, 5))
    ELSE DivLoop(Num, Den, j - 1, SubW(Rem, T, 4), <<qh>> \o Quo)
DivEst(Num, Den, j, Rem, Quo, qh) ==
    DivFix(Num, Den, j, Rem, Quo, qh, MulLimb(Den, qh))
DivTop(Num, Den, j, Rem, Quo, top) ==
    DivEst(Num, Den, j, <<Num[j]>> \o Rem, Quo,
           DivTrim(top \div Den[4], top % Den[4], Den[4], Den[3], Rem[2]))
DivLoop(Num, Den, j, Rem, Quo) ==
    IF j = 0 THEN <<Quo, Rem>>
    ELSE DivTop(Num, Den, j, Rem, Quo, Rem[4] * Base + Rem[3])
DivW(Num, Den, j) ==
    DivLoop(Num, Append(Den, 0), j,
            <<At(Num, j + 1), At(Num, j + 2), At(Num, j + 3), At(Num, j + 4)>>, <<>>)

\* The largest r in lo..hi with r*r <= m (lo*lo <= m).
RECURSIVE ISqrtIn(_, _, _)
ISqrtMid(m, lo, hi, mid) ==
    IF mid * mid <= m THEN ISqrtIn(m, mid, hi) ELSE ISqrtIn(m, lo, mid - 1)
ISqrtIn(m, lo, hi) ==
    IF lo = hi THEN lo ELSE ISqrtMid(m, lo, hi, (lo + hi + 1) \div 2)

\* The integer square root of N of eight limbs, 2^110 <= N < 2^112:
\* <<root, whether root * root # N>>. With m the two high limbs of N and d
\* the root of m plus 1, one step of Newton's iteration from d * 2^14 on the
\* three high limbs gives x < 2^28, one more from (x + 1) * 2^28 on N gives
\* y at or above the root, which is then lowered to it.
RECURSIVE SqrtDown(_, _)
SqrtTest(N, y, c) == IF c > 0 THEN SqrtDown(N, SubW(y, <<1, 0, 0, 0>>, 4)) ELSE <<y, c # 0>>
SqrtDown(N, y) == SqrtTest(N, y, CmpW(MulW(y, y), N, 8))
SqrtFit(N, y) ==
    IF y[5] # 0 THEN SqrtDown(N, <<Base - 1, Base - 1, Base - 1, Base - 1>>)
    ELSE SqrtDown(N, SubSeq(y, 1, 4))
SqrtStep(N, x) == SqrtFit(N, ShrW(AddW(Append(x, 0), DivW(N, x, 5)[1], 5), 1, 5))
SqrtHigh(N, x) ==
    IF x + 1 >= Base * Base THEN SqrtStep(N, <<0, 0, Base - 1, Base - 1>>)
    ELSE SqrtStep(N, <<0, 0, (x + 1) % Base, (x + 1) \div Base>>)
SqrtMid(N, m, d) ==
    SqrtHigh(N, (d * Base + (m \div d) * Base + ((m % d) * Base + N[6]) \div d) \div 2)
SqrtW(N) == SqrtMid(N, N[8] * Base + N[7], 1 + ISqrtIn(N[8] * Base + N[7], 0, Base - 1))

----------------------------------------------------------------------------
(* f64: <<s, e, l3, l2, l1, l0>> is the number                             *)
(* s * (l3 * 2^42 + l2 * 2^28 + l1 * 2^14 + l0) * 2^e.                     *)

Limbs(a) == <<a[6], a[5], a[4], a[3]>>
Pack(s, e, m) == <<s, e, m[4], m[3], m[2], m[1]>>
Inf(s) == <<s, 999, 0, 0, 0, 0>>
SignedZero(s) == <<s, EMin, 0, 0, 0, 0>>

IsNaN(a) == a[1] = 0
IsInf(a) == a[1] # 0 /\ a[2] = 999
IsFin(a) == a[2] # 999
IsZero(a) == a[2] = EMin /\ a[3] = 0 /\ a[4] = 0 /\ a[5] = 0 /\ a[6] = 0
\* -1, 0 or 1; 0 for a zero and for NaN.
Sgn(a) == IF IsZero(a) THEN 0 ELSE a[1]

Neg(a) == <<-a[1], a[2], a[3], a[4], a[5], a[6]>>
Abs(a) == <<IAbs(a[1]), a[2], a[3], a[4], a[5], a[6]>>

\* s * m * 2^q for a significand m of four limbs, m <= 2^53.
Finite(s, m, q) ==
    IF m[4] = 2 ^ 11 THEN (IF q + 1 > EMax THEN Inf(s) ELSE Pack(s, q + 1, <<0, 0, 0, 2 ^ 10>>))
    ELSE Pack(s, q, m)

\* s * W * 2^E rounded to the nearest f64, ties to even: q is the exponent
\* of the last bit kept, L the number of bits of W.
RoundDecide(s, m, q, up) == IF up THEN Finite(s, Inc(m), q) ELSE Pack(s, q, m)
RoundTie(s, m, q, guard, sticky) ==
    RoundDecide(s, m, q, guard /\ (sticky \/ m[1] % 2 = 1))
RoundShift(s, W, k, q) ==
    RoundTie(s, ShrW(W, k, 4), q, BitW(W, k - 1) = 1, LowNonzero(W, k - 1))
RoundAt(s, W, E, L, q) ==
    IF q > EMax THEN Inf(s)
    ELSE IF q <= E THEN Pack(s, q, ShlW(W, E - q, 4))
    ELSE IF q - E > L THEN SignedZero(s)
    ELSE RoundShift(s, W, q - E, q)
RoundLen(s, W, E, L) ==
    IF L = 0 THEN SignedZero(s) ELSE RoundAt(s, W, E, L, IMax(E + L - MantBits, EMin))
RoundPack(s, W, E) == RoundLen(s, W, E, BitLenW(W))

\* The integer i as an f64.
R(i) == RoundPack(IF i < 0 THEN -1 ELSE 1,
                  <<IAbs(i) % Base, (IAbs(i) \div Base) % Base, IAbs(i) \div (Base * Base)>>, 0)

\* a + b for finite a, b # 0 with a's exponent the higher one, by d. Both
\* significands are taken in units of 2^(a[2] - 3); b's loses the bits that
\* are moved out below and is marked for it, which leaves the rounding of
\* the sum and of the difference as it is.
Aligned(B, d) ==
    IF d <= 3 THEN ShlW(B, 3 - d, 5)
    ELSE IF LowNonzero(B, d - 3) THEN Sticky(ShrW(B, d - 3, 5))
    ELSE ShrW(B, d - 3, 5)
AddDiff(sa, A, sb, B, E, c) ==
    IF c = 0 THEN Zero
    ELSE IF c > 0 THEN RoundPack(sa, SubW(A, B, 5), E)
    ELSE RoundPack(sb, SubW(B, A, 5), E)
AddAligned(sa, A, sb, B, E) ==
    IF sa = sb THEN RoundPack(sa, AddW(A, B, 5), E)
    ELSE AddDiff(sa, A, sb, B, E, CmpW(A, B, 5))
AddOrd(a, b) ==
    IF a[2] - b[2] > 56 THEN a
    ELSE AddAligned(a[1], ShlW(Limbs(a), 3, 5), b[1], Aligned(Limbs(b), a[2] - b[2]), a[2] - 3)

Add(a, b) ==
    IF IsNaN(a) \/ IsNaN(b) THEN NaN
    ELSE IF IsFin(a) /\ IsFin(b) THEN
        IF IsZero(a) THEN (IF IsZero(b) THEN (IF a[1] = b[1] THEN a ELSE Zero) ELSE b)
        ELSE IF IsZero(b) THEN a
        ELSE IF a[2] >= b[2] THEN AddOrd(a, b) ELSE AddOrd(b, a)
    ELSE IF IsFin(a) THEN b
    ELSE IF IsFin(b) THEN a
    ELSE IF a = b THEN a ELSE NaN

Sub(a, b) == Add(a, Neg(b))

Mul(a, b) ==
    IF IsNaN(a) \/ IsNaN(b) THEN NaN
    ELSE IF IsFin(a) /\ IsFin(b) THEN
        IF IsZero(a) \/ IsZero(b) THEN SignedZero(a[1] * b[1])
        ELSE RoundPack(a[1] * b[1], MulW(Limbs(a), Limbs(b)), a[2] + b[2])
    ELSE IF IsZero(a) \/ IsZero(b) THEN NaN
    ELSE Inf(a[1] * b[1])

\* The quotient of finite a # 0 and b # 0, with la and lb bits: a's
\* significand is moved to 55 bits over four limbs of zeros, b's to 56 bits,
\* which gives a quotient of 55 or 56 bits, marked when a remainder is left.
DivSticky(s, QR, E) ==
    IF QR[2] = <<0, 0, 0, 0>> THEN RoundPack(s, QR[1], E) ELSE RoundPack(s, Sticky(QR[1]), E)
DivBits(a, b, la, lb) ==
    DivSticky(a[1] * b[1],
              DivW(<<0, 0, 0, 0>> \o ShlW(Limbs(a), 55 - la, 4), ShlW(Limbs(b), 56 - lb, 4), 4),
              a[2] - b[2] - 55 + la - lb)
DivFin(a, b) == DivBits(a, b, BitLenW(Limbs(a)), BitLenW(Limbs(b)))

Div(a, b) ==
    IF IsNaN(a) \/ IsNaN(b) THEN NaN
    ELSE IF IsInf(b) THEN (IF IsInf(a) THEN NaN ELSE SignedZero(a[1] * b[1]))
    ELSE IF IsInf(a) THEN Inf(a[1] * b[1])
    ELSE IF IsZero(b) THEN (IF IsZero(a) THEN NaN ELSE Inf(a[1] * b[1]))
    ELSE IF IsZero(a) THEN SignedZero(a[1] * b[1])
    ELSE DivFin(a, b)

\* The fraction n/d as an f64: the literal n/d of the source.
Q(n, d) == Div(R(n), R(d))

\* a against b for a, b not NaN: -1, 0 or 1.
RECURSIVE CmpMag(_, _, _)
CmpMag(a, b, i) ==
    IF i > 6 THEN 0
    ELSE IF a[i] < b[i] THEN -1
    ELSE IF a[i] > b[i] THEN 1
    ELSE CmpMag(a, b, i + 1)
Cmp(a, b) ==
    IF IsZero(a) /\ IsZero(b) THEN 0
    ELSE IF a[1] # b[1] THEN a[1]
    ELSE a[1] * CmpMag(a, b, 2)

Lt(a, b) == ~IsNaN(a) /\ ~IsNaN(b) /\ Cmp(a, b) < 0
Le(a, b) == ~IsNaN(a) /\ ~IsNaN(b) /\ Cmp(a, b) <= 0
Gt(a, b) == Lt(b, a)
Ge(a, b) == Le(b, a)
Eq(a, b) == ~IsNaN(a) /\ ~IsNaN(b) /\ Cmp(a, b) = 0
Ne(a, b) == ~Eq(a, b)

\* f64::max and f64::min: a NaN operand is skipped.
Max(a, b) == IF IsNaN(a) THEN b ELSE IF IsNaN(b) THEN a ELSE IF Lt(a, b) THEN b ELSE a
Min(a, b) == IF IsNaN(a) THEN b ELSE IF IsNaN(b) THEN a ELSE IF Lt(b, a) THEN b ELSE a

\* f64::powi(2)
Sq(a) == Mul(a, a)

\* The square root of finite a > 0 with la bits: the significand is moved
\* to 111 or 112 bits so that the exponent left is even; the root has 56
\* bits and is marked when it is not exact.
SqrtRoot(S, E) == IF S[2] THEN RoundPack(1, Sticky(S[1]), E) ELSE RoundPack(1, S[1], E)
SqrtShift(a, k) == SqrtRoot(SqrtW(ShlW(Limbs(a), k, 8)), (a[2] - k) \div 2)
SqrtBits(a, la) == SqrtShift(a, IF (a[2] - (112 - la)) % 2 = 0 THEN 112 - la ELSE 111 - la)

\* f64::sqrt
Sqrt(a) ==
    IF IsNaN(a) THEN NaN
    ELSE IF IsZero(a) THEN a
    ELSE IF a[1] < 0 THEN NaN
    ELSE IF IsInf(a) THEN PInf
    ELSE SqrtBits(a, BitLenW(Limbs(a)))

\* std::f64::EPSILON
Epsilon == <<1, -104, 2 ^ 10, 0, 0, 0>>
Xtol == Div(R(1), Mul(R(100000), R(100000)))

\* The floating-point literals of the source: 1.0, 2.0, 3.0, 0.5, 0.66.
One == R(1)
Two == R(2)
Three == R(3)
Half == Q(1, 2)
Lit066 == Q(66, 100)


----------------------------------------------------------------------------
(* The objective: ArgminOperator::apply and ::gradient on a line.  The     *)
(* parameter type T is instantiated with one coordinate, so that dot is a  *)
(* product and scaled_add(a, d) is x + a * d.                              *)

Cube(a) == Mul(a, Mul(a, a))

\* "sq": x^2.  "cube": x^2 + max(0, x)^3.  Each is strictly convex and
\* twice continuously differentiable.  "partial": x^2 of an operator whose
\* apply returns Err at x <= 0 and whose gradient returns Err at x < 1.
Apply(fn, x) ==
    IF fn = "cube" /\ Gt(x, Zero) THEN Add(Sq(x), Cube(x)) ELSE Sq(x)

Gradient(fn, x) ==
    IF fn = "cube" /\ Gt(x, Zero)
    THEN Add(Mul(Two, x), Mul(Three, Sq(x)))
    ELSE Mul(Two, x)

\* Whether apply and gradient return Err.
ApplyFails(fn, x) == fn = "partial" /\ Le(x, Zero)
GradientFails(fn, x) == fn = "partial" /\ Lt(x, One)

ScaledAdd(x, a, d) == Add(x, Mul(a, d))
Dot(a, b) == Mul(a, b)

----------------------------------------------------------------------------
(* Step and cstep *)

Step(x, fx, gx) == [x |-> x, fx |-> fx, gx |-> gx]

\* The input check with a trial at an end of the bracket let through.
RejectedStrict(sx, sy, sp, bk, smin, smax) ==
    \/ bk /\ (Lt(sp.x, Min(sx.x, sy.x)) \/ Gt(sp.x, Max(sx.x, sy.x)))
    \/ Ge(Mul(sx.gx, Sub(sp.x, sx.x)), Zero)
    \/ Lt(smax, smin)

\* The input check of cstep: the inputs are returned as they are, with info 0.
Rejected(sx, sy, sp, bk, smin, smax) ==
    \/ bk /\ (Le(sp.x, Min(sx.x, sy.x)) \/ Ge(sp.x, Max(sx.x, sy.x)))
    \/ Ge(Mul(sx.gx, Sub(sp.x, sx.x)), Zero)
    \/ Lt(smax, smin)

\* sgnd: negative when the derivatives at stx and stp have opposite sign.
Sgnd(sx, sp) == Mul(sp.gx, Div(sx.gx, Abs(sx.gx)))

\* The case of cstep's case analysis.
CaseOf(sx, sp) ==
    IF Gt(sp.fx, sx.fx) THEN 1
    ELSE IF Lt(Sgnd(sx, sp), Zero) THEN 2
    ELSE IF Lt(Abs(sp.gx), Abs(sx.gx)) THEN 3
    ELSE 4

\* theta of the cubic through a and b, the slopes added in the order g1, g2.
Theta(a, b, g1, g2) ==
    Add(Add(Div(Mul(Three, Sub(a.fx, b.fx)), Sub(b.x, a.x)), g1), g2)

\* tmp.iter().max_by(|a, b| a.partial_cmp(b).unwrap()).unwrap(): the largest
\* of the three, the later one of two that compare equal; the unwrap panics
\* when one of them is NaN.
MaxByPanics(theta, ga, gb) == IsNaN(theta) \/ IsNaN(ga) \/ IsNaN(gb)
MaxByFold(a, b) == IF Gt(a, b) THEN a ELSE b
MaxBy(theta, ga, gb) == MaxByFold(MaxByFold(theta, ga), gb)

\* (theta / s)^2 - (ga / s) * (gb / s)
Radicand(theta, s, ga, gb) == Sub(Sq(Div(theta, s)), Mul(Div(ga, s), Div(gb, s)))

\* gamma before its sign is set; case 3 takes the root of max(0, radicand).
Gamma(n, s, rad) == Mul(s, Sqrt(IF n = 3 THEN Max(Zero, rad) ELSE rad))

\* The cubic of a case: theta, s and gamma, before and after the sign.
CubicSigned(theta, s, ga, gb, gamma0, flip) ==
    [cubic |-> TRUE, theta |-> theta, s |-> s, ga |-> ga, gb |-> gb,
     gamma0 |-> gamma0, gamma |-> IF flip THEN Neg(gamma0) ELSE gamma0,
     panicked |-> MaxByPanics(theta, ga, gb)]
CubicScaled(n, theta, s, ga, gb, flip) ==
    CubicSigned(theta, s, ga, gb, Gamma(n, s, Radicand(theta, s, ga, gb)), flip)
CubicTheta(n, theta, ga, gb, flip) ==
    CubicScaled(n, theta, MaxBy(theta, ga, gb), ga, gb, flip)

NoCubic ==
    [cubic |-> FALSE, theta |-> NaN, s |-> NaN, ga |-> NaN, gb |-> NaN,
     gamma0 |-> NaN, gamma |-> NaN, panicked |-> FALSE]

\* The cubic that case n computes.
Cubic(n, sx, sy, sp, bk) ==
    IF n = 1 THEN CubicTheta(n, Theta(sx, sp, sx.gx, sp.gx), sx.gx, sp.gx, Lt(sp.x, sx.x))
    ELSE IF n \in {2, 3}
         THEN CubicTheta(n, Theta(sx, sp, sx.gx, sp.gx), sx.gx, sp.gx, Gt(sp.x, sx.x))
    ELSE IF bk
         THEN CubicTheta(n, Theta(sp, sy, sy.gx, sp.gx), sy.gx, sp.gx, Gt(sp.x, sy.x))
    ELSE NoCubic

\* stpc and stpq of the cases, and the step stpf chosen from them.
Stpf1(sx, stpc, stpq) ==
    IF Lt(Abs(Sub(stpc, sx.x)), Abs(Sub(stpq, sx.x)))
    THEN stpc
    ELSE Add(stpc, Div(Sub(stpq, stpc), Two))

Case1(sx, sp, c) ==
    Stpf1(sx,
          Add(sx.x, Mul(Div(Add(Sub(c.gamma, sx.gx), c.theta),
                            Add(Add(Sub(c.gamma, sx.gx), c.gamma), sp.gx)),
                        Sub(sp.x, sx.x))),
          Add(sx.x, Mul(Div(Div(sx.gx, Add(Div(Sub(sx.fx, sp.fx), Sub(sp.x, sx.x)), sx.gx)),
                            Two),
                        Sub(sp.x, sx.x))))

\* The secant step with the slope of stx in place of that of stp.
StpqSlopeOfStx(sx, sp) == Add(sp.x, Mul(Div(sx.gx, Sub(sp.gx, sx.gx)), Sub(sx.x, sp.x)))

\* The secant step of cases 2 and 3.
Stpq(sx, sp) == Add(sp.x, Mul(Div(sp.gx, Sub(sp.gx, sx.gx)), Sub(sx.x, sp.x)))

Stpf2(sp, stpc, stpq) ==
    IF Gt(Abs(Sub(stpc, sp.x)), Abs(Sub(stpq, sp.x))) THEN stpc ELSE stpq

Case2(sx, sp, c) ==
    Stpf2(sp,
          Add(sp.x, Mul(Div(Add(Sub(c.gamma, sp.gx), c.theta),
                            Add(Add(Sub(c.gamma, sp.gx), c.gamma), sx.gx)),
                        Sub(sx.x, sp.x))),
          Stpq(sx, sp))

Stpc3(sx, sp, c, r, smin, smax) ==
    IF Lt(r, Zero) /\ Ne(c.gamma, Zero)
    THEN Add(sp.x, Mul(r, Sub(sx.x, sp.x)))
    ELSE IF Gt(sp.x, sx.x) THEN smax ELSE smin

Stpf3(sp, bk, stpc, stpq) ==
    IF bk
    THEN (IF Lt(Abs(Sub(sp.x, stpc)), Abs(Sub(sp.x, stpq))) THEN stpc ELSE stpq)
    ELSE (IF Gt(Abs(Sub(sp.x, stpc)), Abs(Sub(sp.x, stpq))) THEN stpc ELSE stpq)

Case3(sx, sp, bk, smin, smax, c) ==
    Stpf3(sp, bk,
          Stpc3(sx, sp, c,
                Div(Add(Sub(c.gamma, sp.gx), c.theta),
                    Add(Add(c.gamma, Sub(sx.gx, sp.gx)), c.gamma)),
                smin, smax),
          Stpq(sx, sp))

Case4(sx, sy, sp, bk, smin, smax, c) ==
    IF bk
    THEN Add(sp.x, Mul(Div(Add(Sub(c.gamma, sp.gx), c.theta),
                           Add(Add(Sub(c.gamma, sp.gx), c.gamma), sy.gx)),
                       Sub(sy.x, sp.x)))
    ELSE IF Gt(sp.x, sx.x) THEN smax ELSE smin

\* The step stpf of case n with cubic c.
Stpf(n, sx, sy, sp, bk, smin, smax, c) ==
    IF n = 1 THEN Case1(sx, sp, c)
    ELSE IF n = 2 THEN Case2(sx, sp, c)
    ELSE IF n = 3 THEN Case3(sx, sp, bk, smin, smax, c)
    ELSE Case4(sx, sy, sp, bk, smin, smax, c)

\* bound set by the first case only.
BoundFirstCase(n) == n = 1

\* bound and brackt of case n
Bound(n) == n \in {1, 3}
Brackt(n, bk) == n \in {1, 2} \/ bk

\* The update with sty left alone whenever stx moves to the trial.
IntervalKeepsHigh(sx, sy, sp) ==
    IF Gt(sp.fx, sx.fx) THEN <<sx, sp>> ELSE <<sp, sy>>

\* The update of the interval of uncertainty: <<stx_o, sty_o>>.
Interval(sx, sy, sp) ==
    IF Gt(sp.fx, sx.fx) THEN <<sx, sp>>
    ELSE IF Lt(Sgnd(sx, sp), Zero) THEN <<sp, sx>>
    ELSE <<sp, sy>>

\* The safeguarded new step: stpf within smin and smax.
Clamp(stpf, smin, smax) == Max(smin, Min(smax, stpf))

\* The new step no farther from stx_o than 0.66 of the way to sty_o.
Limit(x, sxo, syo) ==
    IF Gt(syo.x, sxo.x)
    THEN Min(x, Add(sxo.x, Mul(Lit066, Sub(syo.x, sxo.x))))
    ELSE Max(x, Add(sxo.x, Mul(Lit066, Sub(syo.x, sxo.x))))

Safeguard(stpf, sxo, syo, bk, bound, smin, smax) ==
    IF bk /\ bound
    THEN Limit(Clamp(stpf, smin, smax), sxo, syo)
    ELSE Clamp(stpf, smin, smax)

\* What cstep returns, with the cubic it computed.
CStepOut(sxo, syo, spo, bk, n, c, stpf) ==
    [kind |-> "cstep", panicked |-> c.panicked, cubic |-> c.cubic, theta |-> c.theta,
     s |-> c.s, ga |-> c.ga, gb |-> c.gb, gamma0 |-> c.gamma0, stpf |-> stpf,
     stx |-> sxo, sty |-> syo, stp |-> spo, brackt |-> bk, info |-> n]

CStepSafe(sp, iv, n, bk, smin, smax, c, stpf) ==
    CStepOut(iv[1], iv[2],
             [sp EXCEPT !.x = Safeguard(stpf, iv[1], iv[2], Brackt(n, bk), Bound(n),
                                        smin, smax)],
             Brackt(n, bk), n, c, stpf)

\* The unwrap of max_by panics before anything else of the case is computed.
CStepCubic(sx, sy, sp, bk, smin, smax, n, c) ==
    IF c.panicked
    THEN CStepOut(sx, sy, sp, bk, n, c, NaN)
    ELSE CStepSafe(sp, Interval(sx, sy, sp), n, bk, smin, smax, c,
                   Stpf(n, sx, sy, sp, bk, smin, smax, c))

CStepCase(sx, sy, sp, bk, smin, smax, n) ==
    CStepCubic(sx, sy, sp, bk, smin, smax, n, Cubic(n, sx, sy, sp, bk))

cstep(sx, sy, sp, bk, smin, smax) ==
    IF Rejected(sx, sy, sp, bk, smin, smax)
    THEN CStepOut(sx, sy, sp, bk, 0, NoCubic, NaN)
    ELSE CStepCase(sx, sy, sp, bk, smin, smax, CaseOf(sx, sp))

----------------------------------------------------------------------------
(* Bounds of the model *)

\* Engine steps (next_iter calls) since the last init.
MaxIter == 6
\* Calls on one solver out of the order setters, init, next_iter until it
\* is terminal: a next_iter with no run in progress (before an init that
\* returned Ok, or after the run ended), an init that returns Ok after
\* another one did, a setter after an init that returned Ok or after another
\* call out of order.
MaxExtra == 1

\* self.xtrapf
Xtrapf == 4
XtrapfF == R(Xtrapf)

\* Arguments the setters are called with.
CArgs == { <<Q(1, 2), Q(3, 4)>>, <<Q(1, 2), Q(1, 4)>>, <<NaN, Q(1, 2)>> }
AlphaLimitArgs == { <<Zero, Q(1, 4)>>, <<R(-1), R(1)>> }
AlphaArgs == { Q(1, 8), Zero, NaN }
Directions == { R(-2), R(-1) }
InitialParameters == { R(1) }
InitialCosts == { Zero }
InitialGradients == { Zero }

\* The operators new() is called with.
Operators == { "sq", "cube", "partial" }

----------------------------------------------------------------------------
(* The solver *)

\* Option<T>: None, and Some(v)
Nil == <<>>
Some(v) == <<v>>

None == [kind |-> "none"]

\* What a call returned: rejected when it returned Err, with the kind of the
\* error; the state it was called in; the evaluations of the operator it made.
Returned(kind, err, n) ==
    [kind |-> kind, rejected |-> err # "", err |-> err, from |-> pc, evals |-> n]

\* A panic ends the execution.
Alive == pc # "panic"

\* A call of a setter, out of order after an init that returned Ok or
\* after another call out of order.
SetterCall ==
    /\ Alive
    /\ (runs > 0 \/ extra > 0) => extra < MaxExtra
    /\ extra' = IF runs > 0 \/ extra > 0 THEN extra + 1 ELSE extra
    /\ info' = 0
    /\ ev' = None
    /\ cin' = None
    /\ cs' = None
    /\ UNCHANGED <<operator, runvars, pc, iters, runs>>

\* MoreThuenteLineSearch::new
Init ==
    /\ operator \in Operators
    /\ init_param_b = Nil
    /\ finit_b = Nil
    /\ init_grad_b = Nil
    /\ search_direction_b = Nil
    /\ init_param = Zero
    /\ finit = PInf
    /\ init_grad = Zero
    /\ search_direction = Zero
    /\ dginit = Zero
    /\ dgtest = Zero
    /\ ftol = Q(1, 10000)
    /\ gtol = Q(9, 10)
    /\ width = NaN
    /\ width1 = NaN
    /\ alpha = R(1)
    /\ stpmin = Sqrt(Epsilon)
    /\ stpmax = PInf
    /\ stp = Step(Zero, Zero, Zero)
    /\ stx = Step(Zero, Zero, Zero)
    /\ sty = Step(Zero, Zero, Zero)
    /\ f = NaN
    /\ brackt = FALSE
    /\ stage1 = TRUE
    /\ infoc = 1
    /\ cur_param = Zero
    /\ pc = "new"
    /\ info = 0
    /\ iters = 0
    /\ runs = 0
    /\ extra = 0
    /\ steady = FALSE
    /\ last = None
    /\ ev = None
    /\ cin = None
    /\ cs = None

\* Whether set_c(c1, c2) returns Err.
SetCRejects(c1, c2) ==
    \/ Le(c1, Zero) \/ Ge(c1, c2)
    \/ Le(c2, c1) \/ Ge(c2, One)

set_c(c1, c2) ==
    /\ SetterCall
    /\ IF SetCRejects(c1, c2)
       THEN UNCHANGED <<ftol, gtol>>
       ELSE ftol' = c1 /\ gtol' = c2
    /\ steady' = (steady /\ ftol' = ftol /\ gtol' = gtol)
    /\ last' = Returned("setter", IF SetCRejects(c1, c2) THEN "InvalidParameter" ELSE "", 0)
    /\ UNCHANGED <<stpmin, stpmax, alpha, bldvars>>

\* Whether set_alpha_min_max(alpha_min, alpha_max) returns Err.
SetAlphaMinMaxRejects(alpha_min, alpha_max) ==
    Lt(alpha_min, Zero) \/ Le(alpha_max, alpha_min)

set_alpha_min_max(alpha_min, alpha_max) ==
    /\ SetterCall
    /\ IF SetAlphaMinMaxRejects(alpha_min, alpha_max)
       THEN UNCHANGED <<stpmin, stpmax>>
       ELSE stpmin' = alpha_min /\ stpmax' = alpha_max
    /\ steady' = (steady /\ stpmin' = stpmin /\ stpmax' = stpmax)
    /\ last' = Returned("setter",
                        IF SetAlphaMinMaxRejects(alpha_min, alpha_max)
                        THEN "InvalidParameter" ELSE "", 0)
    /\ UNCHANGED <<ftol, gtol, alpha, bldvars>>

\* Whether set_initial_alpha(a) returns Err.
SetInitialAlphaRejects(a) == Le(a, Zero)

set_initial_alpha(a) ==
    /\ SetterCall
    /\ IF SetInitialAlphaRejects(a)
       THEN UNCHANGED alpha
       ELSE alpha' = a
    /\ steady' = (steady /\ alpha' = alpha)
    /\ last' = Returned("setter",
                        IF SetInitialAlphaRejects(a) THEN "InvalidParameter" ELSE "", 0)
    /\ UNCHANGED <<ftol, gtol, stpmin, stpmax, bldvars>>

\* What the setters of the builder fields leave alone.
Setup ==
    /\ SetterCall
    /\ UNCHANGED <<cfgvars, steady>>

set_search_direction(d) ==
    /\ Setup
    /\ last' = Returned("setter", "", 0)
    /\ search_direction_b' = Some(d)
    /\ UNCHANGED <<init_param_b, finit_b, init_grad_b, cur_param>>

set_initial_parameter(param) ==
    /\ Setup
    /\ last' = Returned("setter", "", 0)
    /\ init_param_b' = Some(param)
    /\ cur_param' = param
    /\ UNCHANGED <<finit_b, init_grad_b, search_direction_b>>

set_initial_cost(init_cost) ==
    /\ Setup
    /\ last' = Returned("setter", "", 0)
    /\ finit_b' = Some(init_cost)
    /\ UNCHANGED <<init_param_b, init_grad_b, search_direction_b, cur_param>>

set_initial_gradient(g) ==
    /\ Setup
    /\ last' = Returned("setter", "", 0)
    /\ init_grad_b' = Some(g)
    /\ UNCHANGED <<init_param_b, finit_b, search_direction_b, cur_param>>

\* calc_initial_cost: the cost at the current parameter, or the error of
\* the operator; one evaluation of the operator either way.
calc_initial_cost ==
    /\ Setup
    /\ last' = Returned("setter", IF ApplyFails(operator, cur_param) THEN "Operator" ELSE "", 1)
    /\ finit_b' = IF ApplyFails(operator, cur_param)
                  THEN finit_b
                  ELSE Some(Apply(operator, cur_param))
    /\ UNCHANGED <<init_param_b, init_grad_b, search_direction_b, cur_param>>

calc_initial_gradient ==
    /\ Setup
    /\ last' = Returned("setter",
                        IF GradientFails(operator, cur_param) THEN "Operator" ELSE "", 1)
    /\ init_grad_b' = IF GradientFails(operator, cur_param)
                      THEN init_grad_b
                      ELSE Some(Gradient(operator, cur_param))
    /\ UNCHANGED <<init_param_b, finit_b, search_direction_b, cur_param>>

\* The check_param! of init that returns Err, 5 when all four fields are set.
InitMissing ==
    IF init_param_b = Nil THEN 1
    ELSE IF finit_b = Nil THEN 2
    ELSE IF init_grad_b = Nil THEN 3
    ELSE IF search_direction_b = Nil THEN 4
    ELSE 5

\* dginit as init computes it
InitDginit == Dot(init_grad_b[1], search_direction_b[1])

\* The direction check without its boundary dginit = 0.
InitRejectsPositive(dgi) == Gt(dgi, Zero)

\* Whether init returns Err: the search direction is no descent direction.
InitRejects(dgi) == Ge(dgi, Zero)

\* Whether init returns Ok.
InitSucceeds == InitMissing = 5 /\ ~InitRejects(InitDginit)

\* The bracket state init leaves behind when it returns Ok.
InitState(fi, dgi) ==
    [stage1 |-> TRUE, brackt |-> FALSE, dgtest |-> Mul(ftol, dgi),
     width |-> Sub(stpmax, stpmin), width1 |-> Mul(Two, Sub(stpmax, stpmin)),
     f |-> fi, stp |-> Step(alpha, NaN, NaN), stx |-> Step(Zero, fi, dgi),
     sty |-> Step(Zero, fi, dgi)]

\* The assignments of init's reset, from the record InitState computed.
InitReset(st) ==
    /\ stage1' = st.stage1
    /\ brackt' = st.brackt
    /\ dgtest' = st.dgtest
    /\ width' = st.width
    /\ width1' = st.width1
    /\ f' = st.f
    /\ stp' = st.stp
    /\ stx' = st.stx
    /\ sty' = st.sty

\* init returns Err: the fields assigned before the check that failed keep
\* their new values.
InitFails(err) ==
    /\ pc' = "failed"
    /\ steady' = FALSE
    /\ last' = Returned("init", err, 0)
    /\ UNCHANGED <<dgtest, width, width1, stp, stx, sty, f, brackt, stage1>>

\* init: each of the four fields is taken from its builder field, or init
\* returns Err; then dginit is stored and the direction is checked, then the
\* bracket state is reset.
init ==
    /\ Alive
    /\ (runs > 0 /\ InitSucceeds) => extra < MaxExtra
    /\ extra' = IF runs > 0 /\ InitSucceeds THEN extra + 1 ELSE extra
    /\ runs' = IF InitSucceeds THEN runs + 1 ELSE runs
    /\ iters' = 0
    /\ info' = 0
    /\ init_param' = IF InitMissing > 1 THEN init_param_b[1] ELSE init_param
    /\ finit' = IF InitMissing > 2 THEN finit_b[1] ELSE finit
    /\ init_grad' = IF InitMissing > 3 THEN init_grad_b[1] ELSE init_grad
    /\ search_direction' = IF InitMissing > 4 THEN search_direction_b[1] ELSE search_direction
    /\ dginit' = IF InitMissing > 4 THEN InitDginit ELSE dginit
    /\ IF InitMissing < 5
       THEN InitFails("NotInitialized")
       ELSE IF InitRejects(dginit')
       THEN InitFails("ConditionViolated")
       ELSE /\ pc' = "run"
            /\ steady' = TRUE
            /\ last' = Returned("init", "", 0)
            /\ InitReset(InitState(finit', dginit'))
    /\ ev' = None
    /\ cin' = None
    /\ cs' = None
    /\ UNCHANGED <<cfgvars, operator, bldvars, infoc>>

\* The interval of uncertainty next_iter starts from: <<stmin, stmax>>.
StInterval ==
    IF brackt
    THEN <<Min(stx.x, sty.x), Max(stx.x, sty.x)>>
    ELSE <<stx.x, Add(stp.x, Mul(XtrapfF, Sub(stp.x, stx.x)))>>

\* stp.x outside the bracket
Outside(x, iv) == brackt /\ (Le(x, iv[1]) \/ Ge(x, iv[2]))

\* the bracket is within the tolerance xtol
TooSmall(iv) == brackt /\ Le(Sub(iv[2], iv[1]), Mul(Xtol, iv[2]))

\* stp.x within the bounds stpmin and stpmax
Bounded(x) == Min(Max(x, stpmin), stpmax)

\* The position next_iter evaluates the objective at: stp.x within the
\* bounds, or stx.x when an unusual termination is to occur.
TrialPosition(iv) ==
    IF Outside(Bounded(stp.x), iv) \/ TooSmall(iv) \/ infoc = 0
    THEN stx.x
    ELSE Bounded(stp.x)

\* The conditions of the termination tests at position x with value fx and
\* slope dg: <<c6, c5, c4, c2, c1>>.
TerminationTests(x, fx, dg, ftest1, iv) ==
    << Outside(x, iv) \/ infoc = 0,
       Lt(Abs(Sub(x, stpmax)), Epsilon) /\ Le(fx, ftest1) /\ Le(dg, dgtest),
       Lt(Abs(Sub(x, stpmin)), Epsilon) /\ (Gt(fx, ftest1) \/ Ge(dg, dgtest)),
       TooSmall(iv),
       Le(fx, ftest1) /\ Le(Abs(dg), Mul(gtol, Neg(dginit))) >>

\* info when the first test that holds decides it.
TerminationInfoFirst(t) ==
    IF t[1] THEN 6
    ELSE IF t[2] THEN 5
    ELSE IF t[3] THEN 4
    ELSE IF t[4] THEN 2
    ELSE IF t[5] THEN 1
    ELSE 0

\* info after the termination tests, each assigning it in turn.
TerminationInfo(t) ==
    IF t[5] THEN 1
    ELSE IF t[4] THEN 2
    ELSE IF t[3] THEN 4
    ELSE IF t[2] THEN 5
    ELSE IF t[1] THEN 6
    ELSE 0

\* Whether the step leaves stage 1.
LeavesStage1(fx, dg, ftest1) ==
    stage1 /\ Le(fx, ftest1) /\ Ge(dg, Mul(Min(ftol, gtol), dginit))

\* Whether cstep is called with the modified function values.
UsesModified(st1, fx, ftest1) == st1 /\ Le(fx, stp.fx) /\ Gt(fx, ftest1)

\* What next_iter computes before it returns or calls cstep.
EvalStage(iv, x, fx, dg, ftest1, t, st1) ==
    [kind |-> "eval", x |-> x, fx |-> fx, dg |-> dg, ftest1 |-> ftest1,
     stmin |-> iv[1], stmax |-> iv[2], tests |-> t, info |-> TerminationInfo(t),
     stage1 |-> st1, modified |-> UsesModified(st1, fx, ftest1), lowfx |-> stx.fx]
EvalTests(iv, x, fx, dg, ftest1) ==
    EvalStage(iv, x, fx, dg, ftest1, TerminationTests(x, fx, dg, ftest1, iv),
              stage1 /\ ~LeavesStage1(fx, dg, ftest1))
EvalParam(iv, x, new_param) ==
    EvalTests(iv, x, Apply(operator, new_param),
              Dot(search_direction, Gradient(operator, new_param)),
              Add(finit, Mul(x, dgtest)))
EvalPosition(iv, x) == EvalParam(iv, x, ScaledAdd(init_param, x, search_direction))
Evaluation == EvalPosition(StInterval, TrialPosition(StInterval))

\* new_param of next_iter
NewParam == ScaledAdd(init_param, TrialPosition(StInterval), search_direction)

\* A point of the modified function: value and slope less the dgtest line.
Modified(x, fx, gx) == Step(x, Sub(fx, Mul(x, dgtest)), Sub(gx, dgtest))

\* The arguments next_iter calls cstep with.
CStepArgs(e) ==
    IF e.modified
    THEN [kind |-> "args",
          stx |-> Modified(stx.x, stx.fx, stx.gx), sty |-> Modified(sty.x, sty.fx, sty.gx),
          stp |-> Modified(e.x, e.fx, e.dg),
          brackt |-> brackt, stmin |-> e.stmin, stmax |-> e.stmax]
    ELSE [kind |-> "args", stx |-> stx, sty |-> sty, stp |-> Step(e.x, e.fx, e.dg),
          brackt |-> brackt, stmin |-> e.stmin, stmax |-> e.stmax]

\* The bracket point stored after cstep on the modified function: the
\* position from cstep, the value and slope of self moved by dgtest.
Unshift(own, out) ==
    [x |-> out.x, fx |-> Add(own.fx, Mul(out.x, dgtest)), gx |-> Add(own.gx, dgtest)]

\* The bracket point stored after cstep.
Stored(modified, own, out) == IF modified THEN Unshift(own, out) ELSE out

\* The step forced to the midpoint of a bracket that shrinks too slowly.
Bisect(bk, sx, sy, sp) ==
    IF bk /\ Ge(Abs(Sub(sy.x, sx.x)), Mul(Lit066, width1))
    THEN [sp EXCEPT !.x = Add(sx.x, Mul(Half, Sub(sy.x, sx.x)))]
    ELSE sp

\* How a call of next_iter ends a run in progress.
Ended(how) == IF pc = "run" THEN how ELSE pc

\* next_iter returns the error of the operator: stp.x is the trial position,
\* and self.f the cost when the gradient failed.
NextIterFails(n) ==
    /\ pc' = Ended("error")
    /\ stp' = [stp EXCEPT !.x = TrialPosition(StInterval)]
    /\ f' = IF n = 1 THEN f ELSE Apply(operator, NewParam)
    /\ last' = Returned("next_iter", "Operator", n)
    /\ ev' = None
    /\ cin' = None
    /\ cs' = None
    /\ UNCHANGED <<stx, sty, brackt, stage1, infoc, width, width1, cur_param, info>>

\* next_iter with the cost and the gradient at the trial position.
NextIterStep ==
    /\ ev' = Evaluation
    /\ f' = ev'.fx
    /\ info' = ev'.info
    /\ cur_param' = NewParam
    /\ last' = Returned("next_iter", "", 2)
    /\ IF ev'.info # 0
       THEN /\ pc' = Ended("done")
            /\ stp' = [stp EXCEPT !.x = ev'.x]
            /\ cin' = None
            /\ cs' = None
            /\ UNCHANGED <<stx, sty, brackt, stage1, infoc, width, width1>>
       ELSE /\ cin' = CStepArgs(ev')
            /\ cs' = cstep(cin'.stx, cin'.sty, cin'.stp, cin'.brackt, cin'.stmin, cin'.stmax)
            /\ stage1' = ev'.stage1
            /\ IF cs'.panicked
               THEN /\ pc' = "panic"
                    /\ stp' = [stp EXCEPT !.x = ev'.x]
                    /\ UNCHANGED <<stx, sty, brackt, infoc, width, width1>>
               ELSE /\ pc' = pc
                    /\ stx' = Stored(ev'.modified, stx, cs'.stx)
                    /\ sty' = Stored(ev'.modified, sty, cs'.sty)
                    /\ brackt' = cs'.brackt
                    /\ infoc' = cs'.info
                    /\ stp' = Bisect(brackt', stx', sty', cs'.stp)
                    /\ width1' = IF brackt' THEN width ELSE width1
                    /\ width' = IF brackt' THEN Abs(Sub(sty'.x, stx'.x)) ELSE width

\* One engine step.
next_iter ==
    /\ Alive /\ iters < MaxIter
    /\ pc # "run" => extra < MaxExtra
    /\ extra' = IF pc = "run" THEN extra ELSE extra + 1
    /\ iters' = iters + 1
    /\ IF ApplyFails(operator, NewParam)
       THEN NextIterFails(1)
       ELSE IF GradientFails(operator, NewParam)
       THEN NextIterFails(2)
       ELSE NextIterStep
    /\ UNCHANGED <<cfgvars, operator, init_param_b, finit_b, init_grad_b,
                   search_direction_b, init_param, finit, init_grad, search_direction,
                   dginit, dgtest, runs, steady>>

Next ==
    \/ \E c \in CArgs : set_c(c[1], c[2])
    \/ \E a \in AlphaLimitArgs : set_alpha_min_max(a[1], a[2])
    \/ \E a \in AlphaArgs : set_initial_alpha(a)
    \/ \E d \in Directions : set_search_direction(d)
    \/ \E p \in InitialParameters : set_initial_parameter(p)
    \/ \E c \in InitialCosts : set_initial_cost(c)
    \/ \E g \in InitialGradients : set_initial_gradient(g)
    \/ calc_initial_cost
    \/ calc_initial_gradient
    \/ init
    \/ next_iter

Spec == Init /\ [][Next]_vars

----------------------------------------------------------------------------
(* cstep on its own: the arguments are drawn from CStepInputs. *)

CStepInputs ==
    [kind : {"args"},
     stx : {Step(Zero, R(1), R(-1)), Step(Zero, R(1), R(1)), Step(R(1), R(1), R(-1)),
            Step(Zero, R(1), Zero)},
     sty : {Step(Zero, R(1), R(-1)), Step(R(2), R(2), R(1)), Step(R(1), R(2), R(3))},
     stp : {Step(x, fx, gx) : x \in {R(-1), Zero, Q(1, 2), R(1), R(2)},
                              fx \in {Q(1, 2), R(2)},
                              gx \in {R(-2), Q(-1, 2), R(1)}},
     brackt : BOOLEAN,
     stmin : {Zero, R(2)},
     stmax : {R(1), R(5)}]

InitCstep ==
    /\ operator = "sq"
    /\ init_param_b = Nil
    /\ finit_b = Nil
    /\ init_grad_b = Nil
    /\ search_direction_b = Nil
    /\ init_param = Zero
    /\ finit = PInf
    /\ init_grad = Zero
    /\ search_direction = Zero
    /\ dginit = Zero
    /\ dgtest = Zero
    /\ ftol = Q(1, 10000)
    /\ gtol = Q(9, 10)
    /\ width = NaN
    /\ width1 = NaN
    /\ alpha = R(1)
    /\ stpmin = Sqrt(Epsilon)
    /\ stpmax = PInf
    /\ stp = Step(Zero, Zero, Zero)
    /\ stx = Step(Zero, Zero, Zero)
    /\ sty = Step(Zero, Zero, Zero)
    /\ f = NaN
    /\ brackt = FALSE
    /\ stage1 = TRUE
    /\ infoc = 1
    /\ cur_param = Zero
    /\ pc = "cstep"
    /\ info = 0
    /\ iters = 0
    /\ runs = 0
    /\ extra = 0
    /\ steady = FALSE
    /\ last = None
    /\ ev = None
    /\ cin \in CStepInputs
    /\ cs = None

cstep_call ==
    /\ pc = "cstep" /\ cs = None
    /\ cs' = cstep(cin.stx, cin.sty, cin.stp, cin.brackt, cin.stmin, cin.stmax)
    /\ last' = Returned("cstep", "", 0)
    /\ UNCHANGED <<cfgvars, operator, bldvars, runvars, pc, info, iters, runs, extra,
                   steady, ev, cin>>

NextCstep == cstep_call

SpecCstep == InitCstep /\ [][NextCstep]_vars

----------------------------------------------------------------------------
(* Properties *)

\* The configuration is as the setters document it.
ConfigValid ==
    /\ Gt(ftol, Zero) /\ Lt(ftol, gtol) /\ Lt(gtol, One)
    /\ Ge(stpmin, Zero) /\ Lt(stpmin, stpmax)
    /\ Gt(alpha, Zero)

\* The state right after an engine step of a run, that is a next_iter called
\* after an init that returned Ok and after non-terminal steps only: any
\* one, a terminal one, a non-terminal one.
AfterStep == last.kind = "next_iter" /\ last.from = "run" /\ pc \in {"run", "done"}
AfterTerminal == AfterStep /\ pc = "done"
AfterUpdate == AfterStep /\ pc = "run"

\* The objective and its slope along the direction at step x, and the two
\* conditions on a step.
ValueAt(x) == Apply(operator, ScaledAdd(init_param, x, search_direction))
SlopeAt(x) ==
    Dot(search_direction, Gradient(operator, ScaledAdd(init_param, x, search_direction)))
Armijo(x) == Le(ValueAt(x), Add(finit, Mul(x, Mul(ftol, dginit))))
Curvature(x) == Le(Abs(SlopeAt(x)), Mul(gtol, Abs(dginit)))

\* The solver was called in order: setters, an init that returned Ok, then
\* next_iter until it was terminal.
InOrder == extra = 0 /\ runs = 1

\* The run was initialised with the cost and the gradient of the objective
\* at the initial parameter.
InitialDataOfObjective ==
    /\ finit = Apply(operator, init_param)
    /\ init_grad = Gradient(operator, init_param)

\* C1: for a strictly convex objective and a descent direction, on a
\* solver called in order with a configuration as documented, the terminal
\* step of the run has code 1 and the step it returns satisfies the
\* sufficient decrease and the curvature condition.
C1_TerminatesWithCode1 ==
    (AfterTerminal /\ ConfigValid /\ InOrder /\ InitialDataOfObjective) =>
        (info = 1 /\ Armijo(stp.x) /\ Curvature(stp.x))

\* The code of the first test that holds, in the order 6, 5, 4, 2, 1, and of
\* the last one.
FirstMatch(t) ==
    IF t[1] THEN 6 ELSE IF t[2] THEN 5 ELSE IF t[3] THEN 4
    ELSE IF t[4] THEN 2 ELSE IF t[5] THEN 1 ELSE 0
LastMatch(t) ==
    IF t[5] THEN 1 ELSE IF t[4] THEN 2 ELSE IF t[3] THEN 4
    ELSE IF t[2] THEN 5 ELSE IF t[1] THEN 6 ELSE 0
Matches(t) == Cardinality({i \in 1..5 : t[i]})

\* C2 (as stated): the code of a terminal step is that of the first test
\* that holds, in the order 6, 5, 4, 2, 1.
C2_FirstMatchWins == AfterTerminal => info = FirstMatch(ev.tests)

\* C2 (as amended): the code of a terminal step is that of the last test
\* that holds, in the order 6, 5, 4, 2, 1: 1 before 2 before 4 before 5
\* before 6.
C2_LastMatchWins == AfterTerminal => info = LastMatch(ev.tests)

\* C2: a terminal step at which more than one test holds.
C2_Witness == AfterTerminal /\ Matches(ev.tests) >= 2 /\ info = 1 /\ ev.tests[2]

\* C3: the position of the point an engine step returns is within the
\* bounds stpmin and stpmax, on a solver called in order.
C3_ReturnedWithinBounds ==
    (AfterStep /\ ConfigValid /\ InOrder) =>
        (Le(stpmin, stp.x) /\ Le(stp.x, stpmax))

\* The scenario of the documentation: x^2 from 1.0 along -2, initialised
\* with the cost 1.0 and the gradient 2.0 there, with the configuration of
\* new(), on a solver called in order.
Scenario ==
    /\ operator = "sq" /\ init_param = R(1) /\ search_direction = R(-2)
    /\ finit = R(1) /\ init_grad = R(2)
    /\ InOrder
    /\ ftol = Q(1, 10000) /\ gtol = Q(9, 10) /\ alpha = R(1)
    /\ stpmin = Sqrt(Epsilon) /\ stpmax = PInf

\* C4: in the scenario the engine ends with code 1 within 5 steps, at the
\* step 0.5 and the value 0.
C4_Scenario ==
    /\ (Scenario /\ AfterUpdate) => iters < 5
    /\ (Scenario /\ AfterTerminal) =>
           (info = 1 /\ iters <= 5 /\ stp.x = Q(1, 2) /\ f = Zero
            /\ ScaledAdd(init_param, stp.x, search_direction) = Zero)

\* C4: the scenario's terminal step.
C4_Witness == Scenario /\ AfterTerminal /\ info = 1 /\ stp.x = Q(1, 2)

\* C5: an init with all four builder fields set and dginit >= 0 fails,
\* evaluates nothing and leaves the bracket state as it was.
C5_InitFailsCleanly ==
    [][(last'.kind = "init" /\ InitMissing = 5 /\ Ge(InitDginit, Zero)) =>
          /\ pc' = "failed" /\ last'.rejected
          /\ last'.evals = 0
          /\ UNCHANGED <<stx, sty, brackt, stage1, width, width1, stp>>]_vars

\* C5: an init that failed after a run that had bracketed the minimizer.
C5_Witness ==
    /\ pc = "failed" /\ last.kind = "init" /\ last.err = "ConditionViolated"
    /\ runs = 1 /\ brackt /\ Ge(dginit, Zero)

\* C6: the stored configuration satisfies 0 < c1 < c2 < 1, 0 <= stpmin <
\* stpmax and alpha > 0 after every setter call, and a rejected call changes
\* none of the stored values.
C6_ConfigurationValid ==
    [][/\ ConfigValid'
       /\ (last'.kind = "setter" /\ last'.rejected) => UNCHANGED cfgvars]_vars

\* The raw point of a point that cstep returned for the modified function.
Raw(out) ==
    [x |-> out.x, fx |-> Add(out.fx, Mul(Mul(ftol, dginit), out.x)),
     gx |-> Add(out.gx, Mul(ftol, dginit))]

\* C7: after a step on the modified function, stx and sty hold the value
\* and the slope cstep returned for them, moved back by c1*dginit*x and
\* c1*dginit.
C7_ShiftUndone ==
    (AfterUpdate /\ steady /\ ev.modified) => (stx = Raw(cs.stx) /\ sty = Raw(cs.sty))

\* C8: a non-terminal step calls cstep with the modified values exactly
\* when it is in stage 1, the sufficient decrease fails at the trial and the
\* trial's value is at most the value stored for stx.
C8_ModifiedSelected ==
    AfterUpdate =>
        IF ev.stage1 /\ Gt(ev.fx, ev.ftest1) /\ Le(ev.fx, ev.lowfx)
        THEN ev.modified /\ cin.stp = Modified(ev.x, ev.fx, ev.dg)
        ELSE ~ev.modified /\ cin.stp = Step(ev.x, ev.fx, ev.dg)

\* C9: in every cubic of cstep s = max(|theta|, |ga|, |gb|), positive when
\* one of them is not zero, and gamma before its sign is set is
\* s*sqrt(max(0, (theta/s)^2 - (ga/s)*(gb/s))), not negative.
C9_ScaleAndGamma ==
    (cs.kind = "cstep" /\ cs.cubic) =>
        /\ cs.s = Max(Abs(cs.theta), Max(Abs(cs.ga), Abs(cs.gb)))
        /\ (Ne(cs.theta, Zero) \/ Ne(cs.ga, Zero) \/ Ne(cs.gb, Zero)) => Gt(cs.s, Zero)
        /\ cs.gamma0 = Mul(cs.s, Sqrt(Max(Zero, Radicand(cs.theta, cs.s, cs.ga, cs.gb))))
        /\ Ge(cs.gamma0, Zero)

\* The inputs the updater is to reject: bracketed with the trial not
\* strictly inside the bracket, or the slope at stx not pointing to the
\* trial, or stmax < stmin.
Degenerate(a) ==
    \/ a.brackt /\ ~(Lt(Min(a.stx.x, a.sty.x), a.stp.x) /\ Lt(a.stp.x, Max(a.stx.x, a.sty.x)))
    \/ Ge(Mul(a.stx.gx, Sub(a.stp.x, a.stx.x)), Zero)
    \/ Lt(a.stmax, a.stmin)

\* C10: cstep returns a degenerate input as it is with info 0, and an info
\* in 1..4 for every other input.
C10_RejectsDegenerate ==
    cs.kind = "cstep" =>
        IF Degenerate(cin)
        THEN /\ cs.info = 0
             /\ cs.stx = cin.stx /\ cs.sty = cin.sty /\ cs.stp = cin.stp
             /\ cs.brackt = cin.brackt
        ELSE cs.info \in 1..4

\* C10: a bracketed input with the trial at an end of the bracket, rejected.
C10_Witness ==
    /\ cs.kind = "cstep" /\ cs.info = 0 /\ cs.stp = cin.stp
    /\ cin.brackt /\ cin.stp.x = Max(cin.stx.x, cin.sty.x)
    /\ Lt(Mul(cin.stx.gx, Sub(cin.stp.x, cin.stx.x)), Zero)
    /\ Le(cin.stmin, cin.stmax)

\* The position `frac` of the way from lo to hi.
Toward(lo, hi, frac) == Add(lo, Mul(frac, Sub(hi, lo)))

\* x is no farther from lo, in the direction of hi, than y is.
NoFarther(x, y, lo, hi) == IF Gt(hi, lo) THEN Le(x, y) ELSE Ge(x, y)

\* x clamped into [lo, hi], for a number x and lo <= hi.
ClampedInto(x, lo, hi) ==
    IF Lt(x, lo) THEN lo ELSE IF Gt(x, hi) THEN hi ELSE x

\* The trial position the claim expects of a call that is not rejected.
SafeguardedStep(c, a) ==
    IF c.brackt /\ c.info \in {1, 3}
    THEN IF NoFarther(ClampedInto(c.stpf, a.stmin, a.stmax),
                      Toward(c.stx.x, c.sty.x, Lit066), c.stx.x, c.sty.x)
         THEN ClampedInto(c.stpf, a.stmin, a.stmax)
         ELSE Toward(c.stx.x, c.sty.x, Lit066)
    ELSE ClampedInto(c.stpf, a.stmin, a.stmax)

\* C11: a call of cstep that is not rejected returns the computed step
\* clamped into [stmin, stmax], and when it returns brackt and the case sets
\* bound (cases 1 and 3), no farther from the new stx than 0.66 of the way to
\* the new sty.
C11_Safeguarded ==
    (cs.kind = "cstep" /\ cs.info # 0) =>
        /\ cs.stp.x = SafeguardedStep(cs, cin)
        /\ cs.stp.fx = cin.stp.fx /\ cs.stp.gx = cin.stp.gx
        /\ (cs.brackt /\ cs.info \in {1, 3}) =>
               NoFarther(cs.stp.x, Toward(cs.stx.x, cs.sty.x, Lit066),
                         cs.stx.x, cs.sty.x)
        /\ ~(cs.brackt /\ cs.info \in {1, 3}) =>
               Le(cin.stmin, cs.stp.x) /\ Le(cs.stp.x, cin.stmax)

\* C11: a bracketed call of case 3 whose step is raised to stmin by the clamp
\* and then brought back to 0.66 of the way from the new stx to the new sty.
C11_Witness ==
    /\ cs.kind = "cstep" /\ cs.info = 3 /\ cs.brackt
    /\ Lt(cs.stpf, cin.stmin)
    /\ cs.stp.x = Toward(cs.stx.x, cs.sty.x, Lit066)
    /\ Lt(cs.stp.x, cin.stmin)

\* The slopes at a and b have opposite signs.
SignChanged(a, b) ==
    \/ Lt(a.gx, Zero) /\ Gt(b.gx, Zero)
    \/ Gt(a.gx, Zero) /\ Lt(b.gx, Zero)

\* C12: a call of cstep that is not rejected, whatever its case, returns
\* sty = trial and stx unchanged if trial.fx > stx.fx; otherwise stx = trial,
\* and sty = the old stx exactly when the slope changes sign between stx and
\* the trial, else sty unchanged.
C12_IntervalUpdated ==
    (cs.kind = "cstep" /\ cs.info # 0) =>
        IF Gt(cin.stp.fx, cin.stx.fx)
        THEN cs.sty = cin.stp /\ cs.stx = cin.stx
        ELSE /\ cs.stx = cin.stp
             /\ cs.sty = IF SignChanged(cin.stx, cin.stp) THEN cin.stx ELSE cin.sty

\* C12: a call where the trial is not higher and the slope changes sign, so
\* that stx moves to the trial and sty to the old stx, different from the
\* old sty.
C12_Witness ==
    /\ cs.kind = "cstep" /\ cs.info = 2
    /\ Le(cin.stp.fx, cin.stx.fx) /\ SignChanged(cin.stx, cin.stp)
    /\ cs.stx = cin.stp /\ cs.sty = cin.stx /\ cin.stx # cin.sty /\ cin.stp # cin.stx

\* The state right after the first engine step of a run.
AfterFirstStep == AfterStep /\ iters = 1

\* C13: the first engine step after a successful init evaluates the objective
\* at the initial step clamped into [stpmin, stpmax] and does not report
\* code 6, however an earlier run on the same solver ended.
C13_RunsIndependent ==
    (AfterFirstStep /\ ConfigValid /\ steady) =>
        /\ ev.x = ClampedInto(alpha, stpmin, stpmax)
        /\ info # 6

=============================================================================
